---------------------------- MODULE Spec2Model ----------------------------
(***************************************************************************)
(* QtQuickVcp HAL remote component: the two socket supervisors             *)
(* (MachinetalkRpcClient, MachinetalkSubscriber) and the composite         *)
(* QHalRemoteComponent.                                                    *)
(*                                                                         *)
(* Qt delivers the signals of this code through direct connections, so a   *)
(* handler and every slot it reaches run to completion before the event    *)
(* loop takes the next event.  Each action below is one event of the loop  *)
(* (a host call, a timer tick, a socket notification); the operators are   *)
(* the C++ methods, written as functions from a world w (all objects'      *)
(* fields) to the world after the call.                                    *)
(*                                                                         *)
(* Strings are sequences of tokens, "." being a token of its own, so that  *)
(* the name handling (component.pin, split at the first dot) and the       *)
(* concatenation of notes are computed as the code computes them.          *)
(***************************************************************************)
EXTENDS Integers, Sequences, FiniteSets, TLC

VARIABLES
    rpc,      \* MachinetalkRpcClient's fields
    sub,      \* MachinetalkSubscriber's fields
    comp,     \* QHalRemoteComponent's fields
    pins,     \* the host's QHalPin objects, by name
    hist,     \* what happened since the last start() (observer)
    log,      \* what the last event did: calls, signals, in their order (observer)
    crashed,  \* the process died (a NULL pin was dereferenced)
    inflight  \* what the server has sent and the sockets have not yet received

vars == <<rpc, sub, comp, pins, hist, log, crashed, inflight>>

-----------------------------------------------------------------------------
(* Bounds of the model *)

\* a send may throw only while m_tx holds at most this many stale records
MaxTxStale == 1
\* the heartbeat of the RPC client ticks only while m_pingErrorCount is below this
MaxPingCount == 3

(* Program constants *)

DefaultHeartbeatPeriod == 3000
PingErrorThreshold == 2

-----------------------------------------------------------------------------
(* Strings *)

Dot == "."
NewLine == "\n"
EmptyString == <<>>

\* QString::indexOf("."): the first position of the dot (1-based), 0 when absent
IndexOfDot(name) ==
    IF \E i \in 1..Len(name) : name[i] = Dot
    THEN CHOOSE i \in 1..Len(name) :
            /\ name[i] = Dot
            /\ \A j \in 1..(i - 1) : name[j] # Dot
    ELSE 0

\* QString("%1.%2").arg(m_name).arg(pin->name())
QualifiedName(compName, pinName) == compName \o <<Dot>> \o pinName

\* strip comp prefix: name.mid(dotIndex + 1) when there is a dot
StripPrefix(name) ==
    IF IndexOfDot(name) # 0
    THEN SubSeq(name, IndexOfDot(name) + 1, Len(name))
    ELSE name

RECURSIVE AppendNotes(_)
\* errorString.append(note(i) + "\n") for every note
AppendNotes(notes) ==
    IF notes = <<>> THEN EmptyString
    ELSE <<Head(notes), NewLine>> \o AppendNotes(Tail(notes))

-----------------------------------------------------------------------------
(* The host's pins *)

HostPins == {<<"a">>, <<"b">>, <<"d">>}

PinType(p) ==
    CASE p = <<"a">> -> "Float"
      [] p = <<"b">> -> "Bit"
      [] OTHER -> "S32"

PinDirection(p) ==
    CASE p = <<"a">> -> "Out"
      [] p = <<"b">> -> "In"
      [] OTHER -> "IO"

PinEnabled(p) == p # <<"d">>

Val(tag, v) == [tag |-> tag, v |-> v]

\* the values the host writes to a pin
LocalValues(p) ==
    CASE PinType(p) = "Float" -> {Val("Float", 1), Val("Float", 2)}
      [] PinType(p) = "Bit" -> {Val("Bit", 0), Val("Bit", 1)}
      [] OTHER -> {Val("S32", 0)}

NoHandle == 0

InitPin(p) ==
    [value |-> CHOOSE v \in LocalValues(p) : \A u \in LocalValues(p) : v.v <= u.v,
     synced |-> FALSE,
     handle |-> NoHandle]

\* QVariant::toDouble / toBool / toInt / toUInt of a stored value; the numbers of
\* this model lie in 0 .. 2^31 - 1, where toInt and toUInt keep the number
ToDouble(val) == val.v
ToBool(val) == IF val.v # 0 THEN 1 ELSE 0
ToInt(val) == val.v
ToUInt(val) == val.v

\* the value field bind() and pinChange() write for a pin of this type
WireValue(p, val) ==
    CASE PinType(p) = "Float" -> Val("Float", ToDouble(val))
      [] PinType(p) = "Bit" -> Val("Bit", ToBool(val))
      [] PinType(p) = "S32" -> Val("S32", ToInt(val))
      [] OTHER -> Val("U32", ToUInt(val))


\* QMap<QString, QHalPin*> iterates in key order
PinOrder == << <<"a">>, <<"b">>, <<"d">> >>

\* a NULL QHalPin* stored in a container
NullPin == <<>>

-----------------------------------------------------------------------------
(* Messages *)

EmptyTx == [pin |-> <<>>, comp |-> <<>>]

NoValue == Val("None", 0)

\* a pb::Pin as the server sends it
RemotePin(name, handle, value) == [name |-> name, handle |-> handle, value |-> value]

\* a pb::Container received from the server; pparams = 0: no protocol parameters
Rx(type, notes, pinList, compList, pparams) ==
    [type |-> type, note |-> notes, pin |-> pinList, comp |-> compList,
     pparams |-> pparams]

\* no container: what an event that receives nothing has at hand
NoMessage == Rx("", <<>>, <<>>, <<>>, 0)

-----------------------------------------------------------------------------
(* The state after construction *)

Init ==
    /\ rpc = [ready |-> FALSE, socket |-> "null", context |-> FALSE,
              socketState |-> "Down", errorString |-> EmptyString,
              timerActive |-> FALSE, heartbeatPeriod |-> DefaultHeartbeatPeriod,
              pingErrorCount |-> 0]
    /\ sub = [ready |-> FALSE, socket |-> "null", context |-> FALSE,
              socketState |-> "Down", errorString |-> EmptyString,
              timerActive |-> FALSE, heartbeatPeriod |-> DefaultHeartbeatPeriod,
              topics |-> {}, subscriptions |-> {}]
    /\ comp = [ready |-> FALSE, name |-> <<"default">>, connected |-> FALSE,
               connectionState |-> "Disconnected", error |-> "NoError",
               errorString |-> EmptyString, create |-> TRUE, tx |-> EmptyTx,
               pinsByName |-> {}, pinsByHandle |-> {}]
    /\ pins = [p \in HostPins |-> InitPin(p)]
    /\ hist = [bindCalled |-> FALSE, bindConfirmed |-> FALSE, rpcTicks |-> 0]
    /\ log = [op |-> "init", type |-> "", note |-> <<>>, rx |-> NoMessage,
              out |-> <<>>,
              stateEvents |-> <<>>,
              linkEvents |-> <<>>, rpcStates |-> <<>>, subStates |-> <<>>,
              socketCalls |-> <<>>, forwarded |-> <<>>]
    /\ crashed = FALSE
    /\ inflight = [rpc |-> <<>>, sub |-> <<>>]

\* the world an event starts in: the objects as they are, an empty log, and the
\* event's inputs (inp.sendOk, inp.connectOk: whether the transport calls of this
\* event succeed; inp.ub: what dereferencing a NULL pin does)
World(op, type, inp) ==
    [rpc |-> rpc, sub |-> sub, comp |-> comp, pins |-> pins, hist |-> hist,
     log |-> [op |-> op, type |-> type, note |-> <<>>, rx |-> NoMessage,
              out |-> <<>>,
              stateEvents |-> <<>>,
              linkEvents |-> <<>>, rpcStates |-> <<>>, subStates |-> <<>>,
              socketCalls |-> <<>>, forwarded |-> <<>>],
     crashed |-> FALSE, in |-> inp]

\* the event is over: the objects are as the world x leaves them
Objects(w) ==
    /\ rpc' = w.rpc
    /\ sub' = w.sub
    /\ comp' = w.comp
    /\ pins' = w.pins
    /\ hist' = w.hist
    /\ log' = w.log
    /\ crashed' = w.crashed

Commit(x) == \E w \in {x} : Objects(w) /\ UNCHANGED inflight

Inputs == [sendOk : BOOLEAN, connectOk : BOOLEAN, ub : {"crash", "survive"}]
NoInput == [sendOk |-> TRUE, connectOk |-> TRUE, ub |-> "crash"]

-----------------------------------------------------------------------------
(* The methods.  Signals are emitted synchronously, so the supervisors' and   *)
(* the component's methods call each other.  Then(x, F) is F applied to the   *)
(* value of x: the statements of a method, one after the other.               *)

Then(x, F(_)) == CHOOSE y \in {F(v) : v \in {x}} : TRUE

RECURSIVE Rpc_updateState(_, _, _)
RECURSIVE Sub_updateState(_, _, _)
RECURSIVE Rpc_sendMessage(_, _, _)
RECURSIVE Rpc_setReady(_, _)
RECURSIVE Sub_setReady(_, _)
RECURSIVE socketStateChanged(_)
RECURSIVE halrcmdStateChanged(_, _)
RECURSIVE updateState(_, _, _, _)
RECURSIVE updateError(_, _, _)
RECURSIVE cleanup(_)
RECURSIVE bind(_)

(* QHalPin (qhalpin.h is not part of the sources at hand) *)

\* QHalPin::setSynced
Pin_setSynced(w, p, synced) == [w EXCEPT !.pins[p].synced = synced]

\* QHalPin::setHandle
Pin_setHandle(w, p, handle) == [w EXCEPT !.pins[p].handle = handle]

\* QHalPin::setValue(value, true): a remote value is stored and the pin is synced;
\* the write is silent, it does not come back as a pin change
Pin_setValueSynced(w, p, value) ==
    [w EXCEPT !.pins[p].value = value, !.pins[p].synced = TRUE]

\* QHalPin::setValue(value): a local write leaves the pin unsynced until the
\* remote side reports the value
Pin_setValueLocal(w, p, value) ==
    [w EXCEPT !.pins[p].value = value, !.pins[p].synced = FALSE]

(* MachinetalkRpcClient *)

Rpc_refreshHeartbeat(w) ==
    [w EXCEPT !.rpc.timerActive = (w.rpc.heartbeatPeriod > 0)]

Rpc_stopHeartbeat(w) == [w EXCEPT !.rpc.timerActive = FALSE]

Rpc_updateState(w, state, errorString) ==
    IF state # w.rpc.socketState
    THEN Then([w EXCEPT !.rpc.socketState = state,
                        !.log.rpcStates = Append(@, state)], LAMBDA w1 :
         Then(socketStateChanged(w1), LAMBDA w2 :
         Then(halrcmdStateChanged(w2, state), LAMBDA w3 :
              IF errorString # w3.rpc.errorString
              THEN [w3 EXCEPT !.rpc.errorString = errorString]
              ELSE w3)))
    ELSE w

ZmqError == <<"Error", "zmq">>

\* the container a caller passes to sendMessage: the client's own m_tx (only
\* ever used for pings, which carry no record) or the component's m_tx
TxOf(w, owner) == IF owner = "comp" THEN w.comp.tx ELSE EmptyTx

Sent(w, type, tx, result) ==
    [type |-> type, pin |-> tx.pin, comp |-> tx.comp, result |-> result,
     connectionState |-> w.comp.connectionState, rpcState |-> w.rpc.socketState]

Rpc_sendMessage(w, type, owner) ==
    IF w.rpc.socket = "null"
    THEN [w EXCEPT !.log.out = Append(@, Sent(w, type, TxOf(w, owner), "dropped"))]
    ELSE Then(IF w.in.sendOk
              THEN [w EXCEPT
                      !.log.out = Append(@, Sent(w, type, TxOf(w, owner), "sent")),
                      !.comp.tx = IF owner = "comp" THEN EmptyTx ELSE @]
              ELSE Rpc_updateState(
                      [w EXCEPT !.log.out =
                          Append(@, Sent(w, type, TxOf(w, owner), "threw"))],
                      "Error", ZmqError), LAMBDA w1 :
              IF type = "PING" THEN Rpc_refreshHeartbeat(w1) ELSE w1)

Rpc_connectSockets(w) ==
    IF w.in.connectOk
    THEN [w EXCEPT !.rpc.context = TRUE, !.rpc.socket = "open"]
    ELSE Rpc_updateState([w EXCEPT !.rpc.context = TRUE, !.rpc.socket = "failed"],
                         "Error", ZmqError)

Rpc_disconnectSockets(w) ==
    Then(Rpc_updateState(w, "Down", EmptyString), LAMBDA w1 :
         [w1 EXCEPT !.rpc.socket = "null", !.rpc.context = FALSE])

Rpc_start(w) ==
    Then(Rpc_updateState(w, "Trying", EmptyString), LAMBDA w1 :
    Then(Rpc_connectSockets(w1), LAMBDA w2 :
         IF w2.in.connectOk
         THEN Then(Rpc_refreshHeartbeat([w2 EXCEPT !.rpc.pingErrorCount = 0]),
                   LAMBDA w3 : Rpc_sendMessage(w3, "PING", "rpc"))
         ELSE w2))

\* stop without stopHeartbeat
Rpc_stop_KeepsTimer(w) == Rpc_disconnectSockets(w)

Rpc_stop(w) ==
    Then(Rpc_stopHeartbeat(w), LAMBDA w1 : Rpc_disconnectSockets(w1))

Rpc_setReady(w, ready) ==
    IF w.rpc.ready = ready
    THEN w
    ELSE Then([w EXCEPT !.rpc.ready = ready], LAMBDA w1 :
              IF ready THEN Rpc_start(w1) ELSE Rpc_stop(w1))

\* heartbeatTimerTick() that times out when the counter reaches the threshold
Rpc_heartbeatTimerTick_AtThreshold(w) ==
    Then(Rpc_sendMessage(w, "PING", "rpc"), LAMBDA w1 :
    Then([w1 EXCEPT !.rpc.pingErrorCount = @ + 1], LAMBDA w2 :
         IF w2.rpc.pingErrorCount >= PingErrorThreshold /\ w2.rpc.socketState = "Up"
         THEN Rpc_updateState(w2, "Timeout", EmptyString)
         ELSE w2))

Rpc_heartbeatTimerTick(w) ==
    Then(Rpc_sendMessage(w, "PING", "rpc"), LAMBDA w1 :
    Then([w1 EXCEPT !.rpc.pingErrorCount = @ + 1], LAMBDA w2 :
         IF w2.rpc.pingErrorCount > PingErrorThreshold /\ w2.rpc.socketState = "Up"
         THEN Rpc_updateState(w2, "Timeout", EmptyString)
         ELSE w2))

Rpc_socketError(w) == Rpc_updateState(w, "Error", ZmqError)

(* MachinetalkSubscriber *)

Sub_addTopic(w, name) == [w EXCEPT !.sub.topics = @ \cup {name}]

Sub_removeTopic(w, name) == [w EXCEPT !.sub.topics = @ \ {name}]

Sub_clearTopics(w) == [w EXCEPT !.sub.topics = {}]

Sub_refreshHeartbeat(w) ==
    [w EXCEPT !.sub.timerActive = (w.sub.heartbeatPeriod > 0)]

Sub_stopHeartbeat(w) == [w EXCEPT !.sub.timerActive = FALSE]

Sub_updateState(w, state, errorString) ==
    IF state # w.sub.socketState
    THEN Then([w EXCEPT !.sub.socketState = state,
                        !.log.subStates = Append(@, state)], LAMBDA w1 :
         Then(socketStateChanged(w1), LAMBDA w2 :
              IF errorString # w2.sub.errorString
              THEN [w2 EXCEPT !.sub.errorString = errorString]
              ELSE w2))
    ELSE w

Sub_connectSockets(w) ==
    IF w.in.connectOk
    THEN [w EXCEPT !.sub.context = TRUE, !.sub.socket = "open"]
    ELSE Sub_updateState([w EXCEPT !.sub.context = TRUE, !.sub.socket = "failed"],
                         "Error", ZmqError)

Sub_disconnectSockets(w) ==
    Then(Sub_updateState(w, "Down", EmptyString), LAMBDA w1 :
         [w1 EXCEPT !.sub.socket = "null", !.sub.context = FALSE])

RECURSIVE SocketCalls(_, _)
\* foreach (QString topic, topics) m_socket-><call>(topic)
SocketCalls(call, topics) ==
    IF topics = {} THEN <<>>
    ELSE LET topic == CHOOSE t \in topics : TRUE
         IN  <<[call |-> call, topic |-> topic]>>
                \o SocketCalls(call, topics \ {topic})

\* subscribe() that does not report Trying
Sub_subscribe_NoTrying(w) ==
    [w EXCEPT !.sub.heartbeatPeriod = 0,
              !.log.socketCalls = @ \o SocketCalls("subscribeTo", w.sub.topics),
              !.sub.subscriptions = @ \cup w.sub.topics]

Sub_subscribe(w) ==
    Then(Sub_updateState(w, "Trying", EmptyString), LAMBDA w1 :
         [w1 EXCEPT !.sub.heartbeatPeriod = 0,
                    !.log.socketCalls = @ \o SocketCalls("subscribeTo", w1.sub.topics),
                    !.sub.subscriptions = @ \cup w1.sub.topics])

\* unsubscribe() that does not report Down
Sub_unsubscribe_NoDown(w) == [w EXCEPT !.sub.subscriptions = {}]

Sub_unsubscribe(w) ==
    Then(Sub_updateState(w, "Down", EmptyString), LAMBDA w1 :
         [w1 EXCEPT !.log.socketCalls =
                        @ \o SocketCalls("subscribeTo", w1.sub.subscriptions),
                    !.sub.subscriptions = {}])

Sub_start(w) ==
    Then(Sub_connectSockets(w), LAMBDA w1 :
         IF w1.in.connectOk THEN Sub_subscribe(w1) ELSE w1)

Sub_stop(w) ==
    Then(Sub_stopHeartbeat(w), LAMBDA w1 : Sub_disconnectSockets(w1))

\* MachinetalkSubscriber::setReady is not part of the sources at hand; it is the
\* RPC client's: "starting attempts to connect; stopping tears down"
Sub_setReady(w, ready) ==
    IF w.sub.ready = ready
    THEN w
    ELSE Then([w EXCEPT !.sub.ready = ready], LAMBDA w1 :
              IF ready THEN Sub_start(w1) ELSE Sub_stop(w1))

\* heartbeatTimerTick() that leaves the timer running
Sub_heartbeatTimerTick_KeepsTimer(w) == Sub_updateState(w, "Timeout", EmptyString)

Sub_heartbeatTimerTick(w) ==
    Then(Sub_updateState(w, "Timeout", EmptyString), LAMBDA w1 :
         Sub_stopHeartbeat(w1))

Sub_pollError(w) == Sub_updateState(w, "Error", ZmqError)

(* QHalRemoteComponent *)

AllUnsynced(w) == \A p \in w.comp.pinsByName : ~w.pins[p].synced

\* the registered pins in the order in which foreach visits m_pinsByName
RegisteredPins(w) == SelectSeq(PinOrder, LAMBDA p : p \in w.comp.pinsByName)

addPins(w) ==
    [w EXCEPT !.comp.pinsByName =
        @ \cup {p \in HostPins : ~(p = EmptyString \/ ~PinEnabled(p))}]

\* removePins() that forgets to clear the handle index
removePins_KeepsHandles(w) == [w EXCEPT !.comp.pinsByName = {}]

removePins(w) ==
    [w EXCEPT !.comp.pinsByHandle = {}, !.comp.pinsByName = {}]

unsyncPins(w) ==
    [w EXCEPT !.pins = [p \in HostPins |->
        IF p \in w.comp.pinsByName THEN [@[p] EXCEPT !.synced = FALSE] ELSE @[p]]]

\* the pb::Pin bind() adds for a registered pin
BindPin(w, p) ==
    [name |-> QualifiedName(w.comp.name, p), type |-> PinType(p),
     dir |-> PinDirection(p), value |-> WireValue(p, w.pins[p].value)]

bind(w) ==
    LET names == RegisteredPins(w)
        component == [name |-> w.comp.name, noCreate |-> ~w.comp.create,
                      pin |-> [i \in 1..Len(names) |-> BindPin(w, names[i])]]
    IN  Then([w EXCEPT !.comp.tx.comp = Append(@, component),
                       !.hist.bindCalled = TRUE], LAMBDA w1 :
             Rpc_sendMessage(w1, "HALRCOMP_BIND", "comp"))

\* a lookup that answers an unknown handle with a registered pin
PinByHandle_Fallback(w, handle) ==
    IF \E e \in w.comp.pinsByHandle : e[1] = handle
    THEN (CHOOSE e \in w.comp.pinsByHandle : e[1] = handle)[2]
    ELSE IF w.comp.pinsByName # {}
    THEN CHOOSE p \in w.comp.pinsByName : TRUE
    ELSE NullPin

\* m_pinsByHandle.value(handle, NULL)
PinByHandle(w, handle) ==
    IF \E e \in w.comp.pinsByHandle : e[1] = handle
    THEN (CHOOSE e \in w.comp.pinsByHandle : e[1] = handle)[2]
    ELSE NullPin

\* a full update that does not enter the pin into m_pinsByHandle
InsertHandle_Skipped(w, handle, p) == w

\* m_pinsByHandle.insert(handle, pin): one entry per key
InsertHandle(w, handle, p) ==
    [w EXCEPT !.comp.pinsByHandle =
        {e \in @ : e[1] # handle} \cup {<<handle, p>>}]

\* pinUpdate storing the remote value the way a local write is stored
pinUpdate_Unsynced(w, remotePin, localPin) ==
    IF remotePin.value.tag \in {"Float", "Bit", "S32", "U32"}
    THEN Pin_setValueLocal(w, localPin, remotePin.value)
    ELSE w

pinUpdate(w, remotePin, localPin) ==
    IF remotePin.value.tag \in {"Float", "Bit", "S32", "U32"}
    THEN Pin_setValueSynced(w, localPin, remotePin.value)
    ELSE w

\* pinChange without "only accept pin changes if we are connected"
pinChange_Unguarded(w, p) ==
    IF PinDirection(p) = "In"
    THEN w
    ELSE LET halPin == [handle |-> w.pins[p].handle, type |-> PinType(p),
                        value |-> WireValue(p, w.pins[p].value)]
         IN  Then([w EXCEPT !.comp.tx.pin = Append(@, halPin)], LAMBDA w1 :
                  Rpc_sendMessage(w1, "HALRCOMP_SET", "comp"))

pinChange(w, p) ==
    IF w.comp.connectionState # "Connected"
    THEN w
    ELSE IF PinDirection(p) = "In"
    THEN w
    ELSE LET halPin == [handle |-> w.pins[p].handle, type |-> PinType(p),
                        value |-> WireValue(p, w.pins[p].value)]
         IN  Then([w EXCEPT !.comp.tx.pin = Append(@, halPin)], LAMBDA w1 :
                  Rpc_sendMessage(w1, "HALRCOMP_SET", "comp"))

\* start() that also sets the subscriber ready
start_WithSubscriber(w) ==
    Then(addPins([w EXCEPT !.hist = [bindCalled |-> FALSE,
                                     bindConfirmed |-> FALSE,
                                     rpcTicks |-> 0]]), LAMBDA w1 :
    Then(Sub_clearTopics(w1), LAMBDA w2 :
    Then(Sub_addTopic(w2, w2.comp.name), LAMBDA w3 :
    Then(Rpc_setReady(w3, TRUE), LAMBDA w4 :
         Sub_setReady(w4, TRUE)))))

start(w) ==
    Then(addPins([w EXCEPT !.hist = [bindCalled |-> FALSE,
                                     bindConfirmed |-> FALSE,
                                     rpcTicks |-> 0]]), LAMBDA w1 :
    Then(Sub_clearTopics(w1), LAMBDA w2 :
    Then(Sub_addTopic(w2, w2.comp.name), LAMBDA w3 :
         Rpc_setReady(w3, TRUE))))

\* cleanup() that leaves the RPC client ready
cleanup_KeepsRpc(w) ==
    Then(Sub_setReady(w, FALSE), LAMBDA w1 : removePins(w1))

\* cleanup() without removePins()
cleanup_KeepsPins(w) ==
    Then(Sub_setReady(w, FALSE), LAMBDA w1 : Rpc_setReady(w1, FALSE))

cleanup(w) ==
    Then(Sub_setReady(w, FALSE), LAMBDA w1 :
    Then(Rpc_setReady(w1, FALSE), LAMBDA w2 :
         removePins(w2)))

stop(w) == cleanup(w)

\* updateError() that only records the error
updateError_NoCleanup(w, error, errorString) ==
    Then(IF w.comp.errorString # errorString
         THEN [w EXCEPT !.comp.errorString = errorString]
         ELSE w, LAMBDA w1 :
         IF w1.comp.error # error THEN [w1 EXCEPT !.comp.error = error] ELSE w1)

updateError(w, error, errorString) ==
    Then(IF w.comp.errorString # errorString
         THEN [w EXCEPT !.comp.errorString = errorString]
         ELSE w, LAMBDA w1 :
         IF w1.comp.error # error
         THEN Then(IF error # "NoError" THEN cleanup(w1) ELSE w1, LAMBDA w2 :
                   [w2 EXCEPT !.comp.error = error])
         ELSE w1)

\* updateState() without unsyncPins()
updateState_NoUnsync(w, state, error, errorString) ==
    Then(IF state # w.comp.connectionState
         THEN [w EXCEPT
                 !.comp.connectionState = state,
                 !.log.stateEvents =
                     Append(@, [from |-> w.comp.connectionState,
                                to |-> state, unsynced |-> AllUnsynced(w)]),
                 !.comp.connected = (state = "Connected")]
         ELSE w, LAMBDA w1 :
         updateError(w1, error, errorString))

\* updateState() that sets m_connected on entering Connected and never resets it
updateState_ConnectedLatched(w, state, error, errorString) ==
    Then(IF state # w.comp.connectionState
         THEN Then(IF w.comp.connectionState = "Connected"
                   THEN unsyncPins(w)
                   ELSE w, LAMBDA u :
                   [u EXCEPT
                      !.comp.connectionState = state,
                      !.log.stateEvents =
                          Append(@, [from |-> u.comp.connectionState,
                                     to |-> state, unsynced |-> AllUnsynced(u)]),
                      !.comp.connected = (@ \/ state = "Connected")])
         ELSE w, LAMBDA w1 :
         updateError(w1, error, errorString))

updateState(w, state, error, errorString) ==
    Then(IF state # w.comp.connectionState
         THEN Then(IF w.comp.connectionState = "Connected"
                   THEN unsyncPins(w)
                   ELSE w, LAMBDA u :
                   [u EXCEPT
                      !.comp.connectionState = state,
                      !.log.stateEvents =
                          Append(@, [from |-> u.comp.connectionState,
                                     to |-> state, unsynced |-> AllUnsynced(u)]),
                      !.comp.connected = (state = "Connected")])
         ELSE w, LAMBDA w1 :
         updateError(w1, error, errorString))

\* socketStateChanged() that tests Trying before Timeout
socketStateChanged_TryingFirst(w) ==
    LET subscriberState == w.sub.socketState
        clientState == w.rpc.socketState
    IN  Then(IF subscriberState = "Up" /\ clientState = "Up"
             THEN updateState(w, "Connected", "NoError", EmptyString)
             ELSE IF subscriberState = "Trying" \/ clientState = "Trying"
             THEN updateState(w, "Connecting", "NoError", EmptyString)
             ELSE IF subscriberState = "Timeout" \/ clientState = "Timeout"
             THEN updateState(w, "Timeout", "NoError", EmptyString)
             ELSE updateState(w, "Disconnected", "NoError", EmptyString), LAMBDA w1 :
             [w1 EXCEPT !.log.linkEvents =
                 Append(@, [s |-> subscriberState, r |-> clientState,
                            connectionState |-> w1.comp.connectionState])])

socketStateChanged(w) ==
    LET subscriberState == w.sub.socketState
        clientState == w.rpc.socketState
    IN  Then(IF subscriberState = "Up" /\ clientState = "Up"
             THEN updateState(w, "Connected", "NoError", EmptyString)
             ELSE IF subscriberState = "Timeout" \/ clientState = "Timeout"
             THEN updateState(w, "Timeout", "NoError", EmptyString)
             ELSE IF subscriberState = "Trying" \/ clientState = "Trying"
             THEN updateState(w, "Connecting", "NoError", EmptyString)
             ELSE updateState(w, "Disconnected", "NoError", EmptyString), LAMBDA w1 :
             [w1 EXCEPT !.log.linkEvents =
                 Append(@, [s |-> subscriberState, r |-> clientState,
                            connectionState |-> w1.comp.connectionState])])

halrcmdStateChanged(w, state) ==
    IF state = "Up" THEN bind(w) ELSE Sub_setReady(w, FALSE)

RECURSIVE IncrementalPins(_, _)
IncrementalPins(w, pinList) ==
    IF pinList = <<>> THEN w
    ELSE LET remotePin == Head(pinList)
             localPin == PinByHandle(w, remotePin.handle)
         IN  Then(IF localPin # NullPin THEN pinUpdate(w, remotePin, localPin) ELSE w,
                  LAMBDA w1 : IncrementalPins(w1, Tail(pinList)))

RECURSIVE FullUpdatePins(_, _)
FullUpdatePins(w, pinList) ==
    IF pinList = <<>> \/ w.crashed THEN w
    ELSE LET remotePin == Head(pinList)
             name == StripPrefix(remotePin.name)
         IN  IF name \in w.comp.pinsByName
             THEN Then(Pin_setHandle(w, name, remotePin.handle), LAMBDA w1 :
                  Then(InsertHandle(w1, remotePin.handle, name), LAMBDA w2 :
                  Then(pinUpdate(w2, remotePin, name), LAMBDA w3 :
                       FullUpdatePins(w3, Tail(pinList)))))
             \* m_pinsByName.value(name) is NULL and is dereferenced
             ELSE IF w.in.ub = "crash"
             THEN [w EXCEPT !.crashed = TRUE]
             ELSE Then(InsertHandle(w, remotePin.handle, NullPin), LAMBDA w1 :
                       FullUpdatePins(w1, Tail(pinList)))

RECURSIVE FullUpdateComps(_, _)
FullUpdateComps(w, compList) ==
    IF compList = <<>> \/ w.crashed THEN w
    ELSE Then(FullUpdatePins(w, Head(compList).pin), LAMBDA w1 :
              FullUpdateComps(w1, Tail(compList)))

halrcompMessageReceived(w, rx) ==
    IF rx.type = "HALRCOMP_INCREMENTAL_UPDATE"
    THEN IncrementalPins(w, rx.pin)
    ELSE IF rx.type = "HALRCOMP_FULL_UPDATE"
    THEN FullUpdateComps(w, rx.comp)
    ELSE IF rx.type = "HALRCOMMAND_ERROR"
    THEN updateState(w, "Error", "CommandError", AppendNotes(rx.note))
    ELSE w

\* halrcmdMessageReceived() that does not stop the RPC client on a bind reject
halrcmdMessageReceived_NoRpcStop(w, rx) ==
    IF rx.type = "HALRCOMP_BIND_CONFIRM"
    THEN Sub_setReady([w EXCEPT !.hist.bindConfirmed = TRUE], TRUE)
    ELSE IF rx.type = "HALRCOMP_BIND_REJECT" \/ rx.type = "HALRCOMP_SET_REJECT"
    THEN LET errorString == AppendNotes(rx.note)
         IN  IF rx.type = "HALRCOMP_BIND_REJECT"
             THEN updateState(w, "Error", "BindError", errorString)
             ELSE updateState(w, "Error", "PinChangeError", errorString)
    ELSE w

halrcmdMessageReceived(w, rx) ==
    IF rx.type = "HALRCOMP_BIND_CONFIRM"
    THEN Sub_setReady([w EXCEPT !.hist.bindConfirmed = TRUE], TRUE)
    ELSE IF rx.type = "HALRCOMP_BIND_REJECT" \/ rx.type = "HALRCOMP_SET_REJECT"
    THEN LET errorString == AppendNotes(rx.note)
         IN  IF rx.type = "HALRCOMP_BIND_REJECT"
             THEN Then(Rpc_setReady(w, FALSE), LAMBDA w1 :
                       updateState(w1, "Error", "BindError", errorString))
             ELSE updateState(w, "Error", "PinChangeError", errorString)
    ELSE w

(* The supervisors' message slots *)

\* emit messageReceived(&m_rx): the log keeps what is handed to the component
\* and how many link state changes the supervisor has emitted by then
Forward(w, channel, rx) ==
    [w EXCEPT !.log.forwarded =
        Append(@, [channel |-> channel, type |-> rx.type,
                   emitted |-> IF channel = "rpc" THEN Len(w.log.rpcStates)
                               ELSE Len(w.log.subStates)])]

\* socketMessageReceived() that hands the message on before it looks at the link
Rpc_socketMessageReceived_ForwardFirst(w, rx) ==
    Then(IF rx.type # "PING_ACKNOWLEDGE"
         THEN Then(Forward(w, "rpc", rx), LAMBDA w2 : halrcmdMessageReceived(w2, rx))
         ELSE w, LAMBDA w1 :
         Rpc_updateState([w1 EXCEPT !.rpc.pingErrorCount = 0], "Up", EmptyString))

\* socketMessageReceived() that hands every message on
Rpc_socketMessageReceived_NoFilter(w, rx) ==
    Then(Rpc_updateState([w EXCEPT !.rpc.pingErrorCount = 0], "Up", EmptyString),
         LAMBDA w1 :
         Then(Forward(w1, "rpc", rx), LAMBDA w2 : halrcmdMessageReceived(w2, rx)))

Rpc_socketMessageReceived(w, rx) ==
    Then(Rpc_updateState([w EXCEPT !.rpc.pingErrorCount = 0], "Up", EmptyString),
         LAMBDA w1 :
         IF rx.type # "PING_ACKNOWLEDGE"
         THEN Then(Forward(w1, "rpc", rx), LAMBDA w2 : halrcmdMessageReceived(w2, rx))
         ELSE w1)

\* socketMessageReceived() that does not take a full update for the link being up
Sub_socketMessageReceived_NoUp(w, frames, rx) ==
    IF frames < 2
    THEN w
    ELSE IF w.sub.socketState = "Up"
    THEN Then(Sub_refreshHeartbeat(w), LAMBDA w2 :
              IF rx.type # "PING"
              THEN halrcompMessageReceived(w2, rx)
              ELSE w2)
    ELSE Then(Sub_unsubscribe(w), LAMBDA w2 : Sub_subscribe(w2))

\* socketMessageReceived() that takes any message for the link being up
Sub_socketMessageReceived_UpOnAny(w, frames, rx) ==
    IF frames < 2
    THEN w
    ELSE Then(Then(Sub_updateState(w, "Up", EmptyString), LAMBDA u :
                   IF rx.type = "HALRCOMP_FULL_UPDATE" /\ rx.pparams # 0
                   THEN [u EXCEPT !.sub.heartbeatPeriod = rx.pparams * 2]
                   ELSE u), LAMBDA w1 :
              Then(Sub_refreshHeartbeat(w1), LAMBDA w2 :
                   IF rx.type # "PING"
                   THEN halrcompMessageReceived(w2, rx)
                   ELSE w2))

Sub_socketMessageReceived(w, frames, rx) ==
    IF frames < 2
    THEN w
    ELSE Then(IF rx.type = "HALRCOMP_FULL_UPDATE"
              THEN Then(Sub_updateState(w, "Up", EmptyString), LAMBDA u :
                        IF rx.pparams # 0
                        THEN [u EXCEPT !.sub.heartbeatPeriod = rx.pparams * 2]
                        ELSE u)
              ELSE w, LAMBDA w1 :
              IF w1.sub.socketState = "Up"
              THEN Then(Sub_refreshHeartbeat(w1), LAMBDA w2 :
                        IF rx.type # "PING"
                        THEN Then(Forward(w2, "sub", rx), LAMBDA w3 :
                                  halrcompMessageReceived(w3, rx))
                        ELSE w2)
              ELSE Then(Sub_unsubscribe(w1), LAMBDA w2 : Sub_subscribe(w2)))

-----------------------------------------------------------------------------
(* What the host and the server may do *)

\* "default", "c2" and "c.2"
ComponentNames == {<<"default">>, <<"c2">>, <<"c", Dot, "2">>}

NoteLists == {<<>>, <<"n1">>, <<"n1", "n2">>}

RpcMessages ==
    {Rx(t, <<>>, <<>>, <<>>, 0) :
        t \in {"PING_ACKNOWLEDGE", "HALRCOMP_BIND_CONFIRM", "OTHER"}}
    \cup {Rx(t, n, <<>>, <<>>, 0) :
            t \in {"HALRCOMP_BIND_REJECT", "HALRCOMP_SET_REJECT"}, n \in NoteLists}

KeepaliveTimers == {0, 1000}

FullUpdate(name, pinList, keepalive) ==
    Rx("HALRCOMP_FULL_UPDATE", <<>>, <<>>, <<[name |-> name, pin |-> pinList]>>,
       keepalive)

IncrementalUpdate(pinList) ==
    Rx("HALRCOMP_INCREMENTAL_UPDATE", <<>>, pinList, <<>>, 0)

\* the messages of a server that knows the component's two registered pins
SessionMessages(name) ==
    {FullUpdate(name,
                <<RemotePin(QualifiedName(name, <<"a">>), 7, Val("Float", 2)),
                  RemotePin(QualifiedName(name, <<"b">>), 8, Val("Bit", 1))>>, k) :
        k \in KeepaliveTimers}
    \cup {IncrementalUpdate(<<RemotePin(<<>>, 7, Val("Float", 1))>>),
          IncrementalUpdate(<<RemotePin(<<>>, 99, Val("Float", 2))>>)}
    \cup {Rx("HALRCOMMAND_ERROR", n, <<>>, <<>>, 0) : n \in NoteLists}
    \cup {Rx(t, <<>>, <<>>, <<>>, 0) : t \in {"PING", "OTHER"}}

\* whether a send of the component's m_tx may throw in this event: the stale
\* records a throwing send leaves in m_tx are bounded
SendResults ==
    IF Len(comp.tx.pin) + Len(comp.tx.comp) < MaxTxStale THEN BOOLEAN ELSE {TRUE}

-----------------------------------------------------------------------------
(* The events *)

\* AbstractServiceImplementation::setReady(true), which calls start() (the class
\* is not part of the sources at hand)
\* results: whether the connect and the first send of this start may fail
StartWith(results) ==
    /\ ~crashed
    /\ ~comp.ready
    /\ \E c \in results, s \in results :
          Commit(start([World("start", "", [NoInput EXCEPT !.connectOk = c, !.sendOk = s])
                          EXCEPT !.comp.ready = TRUE]))

Start == StartWith(BOOLEAN)

\* AbstractServiceImplementation::setReady(false), which calls stop()
Stop ==
    /\ ~crashed
    /\ comp.ready
    /\ Commit(stop([World("stop", "", NoInput) EXCEPT !.comp.ready = FALSE]))

setName(w, arg) ==
    IF w.comp.connectionState # "Disconnected"
    THEN w
    ELSE IF w.comp.name # arg THEN [w EXCEPT !.comp.name = arg] ELSE w

SetName ==
    /\ ~crashed
    /\ \E n \in ComponentNames \ {comp.name} :
          Commit(setName(World("setName", "", NoInput), n))

setCreate(w, arg) ==
    IF w.comp.create = arg THEN w ELSE [w EXCEPT !.comp.create = arg]

SetCreate ==
    /\ ~crashed
    /\ \E b \in BOOLEAN \ {comp.create} :
          Commit(setCreate(World("setCreate", "", NoInput), b))

\* the host writes a pin; valueChanged reaches pinChange when the pin is
\* registered.  sends: whether the send of this event may throw
LocalPinChange(sends) ==
    /\ ~crashed
    /\ \E p \in HostPins, s \in sends :
          \E v \in LocalValues(p) \ {pins[p].value} :
             LET w == Pin_setValueLocal(
                         World("pinChange", p[1], [NoInput EXCEPT !.sendOk = s]), p, v)
             IN  Commit(IF p \in comp.pinsByName THEN pinChange(w, p) ELSE w)

RpcHeartbeat ==
    /\ ~crashed
    /\ rpc.timerActive
    /\ rpc.pingErrorCount < MaxPingCount
    /\ \E s \in BOOLEAN :
          Commit(Rpc_heartbeatTimerTick(
                    [World("rpcTick", "", [NoInput EXCEPT !.sendOk = s])
                        EXCEPT !.hist.rpcTicks = @ + 1]))

RpcReceive(messages, sends) ==
    /\ ~crashed
    /\ rpc.socket = "open"
    /\ \E rx \in messages, s \in sends :
          Commit(Rpc_socketMessageReceived(
                    [World("rpcMessage", rx.type, [NoInput EXCEPT !.sendOk = s])
                        EXCEPT !.log.note = rx.note, !.log.rx = rx,
                               !.hist.rpcTicks = 0], rx))

RpcMessage(sends) == RpcReceive(RpcMessages, sends)

RpcSocketError ==
    /\ ~crashed
    /\ rpc.context
    /\ Commit(Rpc_socketError(World("rpcError", "", NoInput)))

SubHeartbeat ==
    /\ ~crashed
    /\ sub.timerActive
    /\ Commit(Sub_heartbeatTimerTick(World("subTick", "", NoInput)))

\* a message of two frames: the topic and the container
SubMessage(messages, ubs) ==
    /\ ~crashed
    /\ sub.socket = "open"
    /\ \E rx \in messages, u \in ubs :
          Commit(Sub_socketMessageReceived(
                    [World("subMessage", rx.type, [NoInput EXCEPT !.ub = u])
                        EXCEPT !.log.note = rx.note, !.log.rx = rx], 2, rx))

\* a message of one frame
SubShortMessage ==
    /\ ~crashed
    /\ sub.socket = "open"
    /\ Commit(Sub_socketMessageReceived(
                 World("subShortMessage", "", NoInput), 1,
                 Rx("OTHER", <<>>, <<>>, <<>>, 0)))

SubPollError ==
    /\ ~crashed
    /\ sub.context
    /\ Commit(Sub_pollError(World("subError", "", NoInput)))

-----------------------------------------------------------------------------
(* Specifications *)

\* The session: every event of the host, the timers and the two sockets.  The
\* transport may fail to connect and may throw on a ping; the sends of the
\* component itself (BIND, SET) go through.
Next ==
    \/ Start
    \/ Stop
    \/ SetCreate
    \/ LocalPinChange({TRUE})
    \/ RpcHeartbeat
    \/ RpcMessage({TRUE})
    \/ RpcSocketError
    \/ SubHeartbeat
    \/ SubMessage(SessionMessages(comp.name), {"crash", "survive"})
    \/ SubShortMessage
    \/ SubPollError

Spec == Init /\ [][Next]_vars

\* The session over a transport that may also throw on a BIND or a SET; the host
\* leaves the create property as it is.
NextTx ==
    \/ Start
    \/ Stop
    \/ LocalPinChange(SendResults)
    \/ RpcHeartbeat
    \/ RpcMessage(SendResults)
    \/ RpcSocketError
    \/ SubHeartbeat
    \/ SubMessage(SessionMessages(comp.name), {"crash", "survive"})
    \/ SubShortMessage
    \/ SubPollError

SpecTx == Init /\ [][NextTx]_vars

\* A server that answers with what the component bound: the Component record
\* of the BIND the registry yields, published as a full update in which the
\* i-th pin has the handle EchoHandle(i).
EchoHandle(i) == 10 + i

BindRecord(w) ==
    LET sent == bind(w).log.out
        comps == sent[Len(sent)].comp
    IN  comps[Len(comps)]

Echo(component) ==
    FullUpdate(component.name,
               [i \in 1..Len(component.pin) |->
                   RemotePin(component.pin[i].name, EchoHandle(i),
                             component.pin[i].value)], 0)

SubEcho ==
    /\ ~crashed
    /\ sub.socket = "open"
    /\ \E u \in {"crash", "survive"}, rx \in {Echo(BindRecord(World("echo", "", NoInput)))} :
          Commit(Sub_socketMessageReceived(
                    [World("echo", rx.type, [NoInput EXCEPT !.ub = u])
                        EXCEPT !.log.rx = rx], 2, rx))

NextEcho ==
    \/ SetName
    \/ Start
    \/ Stop
    \/ LocalPinChange({TRUE})
    \/ RpcMessage({TRUE})
    \/ SubEcho

SpecEcho == Init /\ [][NextEcho]_vars

\* A server that sends heartbeat messages of either type on either channel.
HeartbeatMessages ==
    {Rx(t, <<>>, <<>>, <<>>, 0) : t \in {"PING", "PING_ACKNOWLEDGE"}}

NextPing ==
    \/ Start
    \/ RpcMessage({TRUE})
    \/ RpcReceive(HeartbeatMessages, {TRUE})
    \/ RpcHeartbeat
    \/ SubHeartbeat
    \/ SubMessage(SessionMessages(comp.name) \cup HeartbeatMessages, {"crash"})

SpecPing == Init /\ [][NextPing]_vars

\* An undisturbed session: connects and sends succeed, the server confirms the
\* bind and publishes full updates, no timer expires.
ConnectReplies ==
    {Rx(t, <<>>, <<>>, <<>>, 0) : t \in {"PING_ACKNOWLEDGE", "HALRCOMP_BIND_CONFIRM"}}

ConnectUpdates(name) ==
    {m \in SessionMessages(name) : m.type = "HALRCOMP_FULL_UPDATE"}

NextConnect ==
    \/ StartWith({TRUE})
    \/ Stop
    \/ LocalPinChange({TRUE})
    \/ RpcReceive(ConnectReplies, {TRUE})
    \/ SubMessage(ConnectUpdates(comp.name), {"crash"})

SpecConnect == Init /\ [][NextConnect]_vars

\* MachinetalkRpcClient::sendMessage is a public slot: a caller other than the
\* component may call it whatever the state of the client
SendTypes == {"PING", "HALRCOMP_SET"}

RpcSend ==
    /\ ~crashed
    /\ \E type \in SendTypes :
          Commit(Rpc_sendMessage(World("send", type, NoInput), type, "rpc"))

NextSend ==
    \/ Start
    \/ Stop
    \/ RpcMessage({TRUE})
    \/ RpcHeartbeat
    \/ SubMessage(SessionMessages(comp.name), {"crash"})
    \/ RpcSend

SpecSend == Init /\ [][NextSend]_vars

\* the full updates of a server that also knows a pin the component has not
\* registered (the disabled pin d)
UpdateMessages(name) ==
    {FullUpdate(name,
                <<RemotePin(QualifiedName(name, <<"a">>), 7, Val("Float", 2)),
                  RemotePin(QualifiedName(name, <<"d">>), 9, Val("S32", 1)),
                  RemotePin(QualifiedName(name, <<"b">>), 8, Val("Bit", 1))>>, 0),
     FullUpdate(name,
                <<RemotePin(QualifiedName(name, <<"a">>), 7, Val("Float", 1)),
                  RemotePin(QualifiedName(name, <<"b">>), 8, Val("Bit", 0))>>, 0),
     IncrementalUpdate(<<RemotePin(<<>>, 7, Val("Float", 2))>>),
     IncrementalUpdate(<<RemotePin(<<>>, 9, Val("S32", 1))>>),
     \* a later full update of the same session with other handles
     FullUpdate(name,
                <<RemotePin(QualifiedName(name, <<"a">>), 17, Val("Float", 1)),
                  RemotePin(QualifiedName(name, <<"b">>), 18, Val("Bit", 0))>>, 0),
     \* a record without any of the value fields
     IncrementalUpdate(<<RemotePin(<<>>, 7, NoValue)>>),
     \* records whose value field is not the one of the pin's type
     IncrementalUpdate(<<RemotePin(<<>>, 7, Val("Bit", 1))>>),
     FullUpdate(name,
                <<RemotePin(QualifiedName(name, <<"a">>), 7, Val("Float", 1)),
                  RemotePin(QualifiedName(name, <<"b">>), 8, Val("S32", 1))>>, 0)}

\* The session with such a server, over a transport that does not fail and
\* without timers.
NextUpd ==
    \/ Start
    \/ Stop
    \/ LocalPinChange({TRUE})
    \/ RpcMessage({TRUE})
    \/ SubMessage(UpdateMessages(comp.name), {"crash", "survive"})

SpecUpd == Init /\ [][NextUpd]_vars

-----------------------------------------------------------------------------
(* A well-behaved server over a transport that does not fail *)

\* the server's answers to what an event has sent: an acknowledge for every
\* PING, a confirm for every BIND
Replies(w) ==
    LET asked == SelectSeq(w.log.out, LAMBDA m :
                    m.result = "sent" /\ m.type \in {"PING", "HALRCOMP_BIND"})
    IN  [i \in 1..Len(asked) |->
            Rx(IF asked[i].type = "PING" THEN "PING_ACKNOWLEDGE"
                                         ELSE "HALRCOMP_BIND_CONFIRM",
               <<>>, <<>>, <<>>, 0)]

\* the server publishes a full update of the component after each subscribe
Publications(w, keepalive) ==
    IF \E i \in 1..Len(w.log.subStates) : w.log.subStates[i] = "Trying"
    THEN <<FullUpdate(w.comp.name,
                      <<RemotePin(QualifiedName(w.comp.name, <<"a">>), 7,
                                  Val("Float", 2)),
                        RemotePin(QualifiedName(w.comp.name, <<"b">>), 8,
                                  Val("Bit", 1))>>, keepalive)>>
    ELSE <<>>

\* the event is over; what a closed socket had not received is lost
CommitLive(x, pending, keepalive) ==
    \E w \in {x} :
        /\ Objects(w)
        /\ inflight' =
             [rpc |-> IF w.rpc.socket = "open"
                      THEN pending.rpc \o Replies(w) ELSE <<>>,
              sub |-> IF w.sub.socket = "open"
                      THEN pending.sub \o Publications(w, keepalive) ELSE <<>>]

LiveStart ==
    /\ ~crashed
    /\ ~comp.ready
    /\ CommitLive(start([World("start", "", NoInput) EXCEPT !.comp.ready = TRUE]),
                  inflight, 0)

LiveRpcMessage ==
    /\ ~crashed
    /\ rpc.socket = "open"
    /\ inflight.rpc # <<>>
    /\ \E rx \in {Head(inflight.rpc)}, k \in KeepaliveTimers :
          CommitLive(Rpc_socketMessageReceived(
                        [World("rpcMessage", rx.type, NoInput)
                            EXCEPT !.log.note = rx.note, !.log.rx = rx,
                               !.hist.rpcTicks = 0], rx),
                     [inflight EXCEPT !.rpc = Tail(@)], k)

LiveSubMessage ==
    /\ ~crashed
    /\ sub.socket = "open"
    /\ inflight.sub # <<>>
    /\ \E rx \in {Head(inflight.sub)}, k \in KeepaliveTimers :
          CommitLive(Sub_socketMessageReceived(
                        [World("subMessage", rx.type, NoInput)
                            EXCEPT !.log.note = rx.note, !.log.rx = rx], 2, rx),
                     [inflight EXCEPT !.sub = Tail(@)], k)

\* the heartbeat timer fires only when the answer to the last ping is in
LiveRpcHeartbeat ==
    /\ ~crashed
    /\ rpc.timerActive
    /\ inflight.rpc = <<>>
    /\ CommitLive(Rpc_heartbeatTimerTick(
                     [World("rpcTick", "", NoInput) EXCEPT !.hist.rpcTicks = @ + 1]),
                  inflight, 0)

\* the subscriber's timer fires when the server was silent for a period; the
\* server's next periodic ping is then on its way
LiveSubHeartbeat ==
    /\ ~crashed
    /\ sub.timerActive
    /\ inflight.sub = <<>>
    /\ CommitLive(Sub_heartbeatTimerTick(World("subTick", "", NoInput)),
                  [inflight EXCEPT !.sub = <<Rx("PING", <<>>, <<>>, <<>>, 0)>>], 0)

LiveNext ==
    \/ LiveStart
    \/ LiveRpcMessage
    \/ LiveSubMessage
    \/ LiveRpcHeartbeat
    \/ LiveSubHeartbeat
    \/ LocalPinChange({TRUE})

\* The event loop delivers what has arrived on a socket.
LiveSpec ==
    /\ Init
    /\ [][LiveNext]_vars
    /\ WF_vars(LiveRpcMessage)
    /\ WF_vars(LiveSubMessage)

-----------------------------------------------------------------------------
(* The claims *)

Handed(type) == {i \in 1..Len(log.out) : log.out[i].type = type}

Count(seq, x) == Cardinality({i \in 1..Len(seq) : seq[i] = x})

RegistryEmpty == comp.pinsByName = {} /\ comp.pinsByHandle = {}

\* the notes, each followed by a newline
JoinNotes(notes) ==
    [i \in 1..(2 * Len(notes)) |->
        IF i % 2 = 1 THEN notes[(i + 1) \div 2] ELSE NewLine]

\* the notes one after the other (a note is one character of the model)
ConcatNotes(notes) == notes

\* C1: a HALRCOMP_SET is handed to the RPC client only while connectionState is
\* Connected, and a pin change in any other connection state hands it nothing.
C1_SetOnlyWhileConnected ==
    /\ [](\A i \in Handed("HALRCOMP_SET") :
            log.out[i].connectionState = "Connected")
    /\ [][(log'.op = "pinChange" /\ comp.connectionState # "Connected")
            => log'.out = <<>>]_vars

C1_Witness ==
    /\ log.op = "pinChange"
    /\ Handed("HALRCOMP_SET") = {1}
    /\ log.out[1].result = "sent"
    /\ log.out[1].connectionState = "Connected"

\* the composite state of the two link states, by priority
Composite(s, r) ==
    CASE s = "Up" /\ r = "Up" -> "Connected"
      [] ~(s = "Up" /\ r = "Up") /\ (s = "Timeout" \/ r = "Timeout") -> "Timeout"
      [] ~(s = "Up" /\ r = "Up") /\ ~(s = "Timeout" \/ r = "Timeout")
            /\ (s = "Trying" \/ r = "Trying") -> "Connecting"
      [] OTHER -> "Disconnected"

\* C2: after every link-state change of either supervisor connectionState is the
\* composite of the two link states: Connected if both are Up, else Timeout if
\* one is Timeout, else Connecting if one is Trying, else Disconnected.
C2_CompositeStateRule ==
    \A i \in 1..Len(log.linkEvents) :
        log.linkEvents[i].connectionState =
            Composite(log.linkEvents[i].s, log.linkEvents[i].r)

C2_Witness ==
    \E i \in 1..Len(log.linkEvents) :
        /\ log.linkEvents[i].s = "Trying"
        /\ log.linkEvents[i].r = "Timeout"
        /\ log.linkEvents[i].connectionState = "Timeout"

\* C3: whenever connectionStateChanged is emitted for a transition out of
\* Connected, every registered pin is already unsynced.
C3_UnsyncedBeforeStateChange ==
    \A i \in 1..Len(log.stateEvents) :
        log.stateEvents[i].from = "Connected" => log.stateEvents[i].unsynced

C3_Witness ==
    /\ log.op = "subTick"
    /\ Len(log.stateEvents) = 1
    /\ log.stateEvents[1].from = "Connected"
    /\ log.stateEvents[1].to = "Timeout"
    /\ log.stateEvents[1].unsynced
    /\ comp.pinsByName # {}

\* C4: every transition of the RPC client into Up hands over exactly one
\* HALRCOMP_BIND, which carries one Component record (the name, noCreate = not
\* create, one pin per registered pin) and nothing else, and no BIND is handed
\* over while the RPC client is not Up.
C4_OneBindPerUp ==
    /\ Cardinality(Handed("HALRCOMP_BIND")) = Count(log.rpcStates, "Up")
    /\ \A i \in Handed("HALRCOMP_BIND") :
          /\ log.out[i].rpcState = "Up"
          /\ log.out[i].pin = <<>>
          /\ Len(log.out[i].comp) = 1
          /\ log.out[i].comp[1].name = comp.name
          /\ log.out[i].comp[1].noCreate = ~comp.create
          /\ Len(log.out[i].comp[1].pin) = Cardinality({p \in HostPins : PinEnabled(p)})

\* C5: the subscriber is not ready, Down and without a socket until, since
\* start(), a BIND was handed over and a BIND_CONFIRM was received.
C5_SubscriberWaitsForBindConfirm ==
    (sub.ready \/ sub.socketState # "Down" \/ sub.socket # "null")
        => (hist.bindCalled /\ hist.bindConfirmed)

C5_Witness ==
    /\ log.op = "rpcMessage"
    /\ log.type = "HALRCOMP_BIND_CONFIRM"
    /\ log.subStates = <<"Trying">>
    /\ sub.socketState = "Trying"

\* what the full update of the server leaves in the pins it names
FullySynced ==
    /\ comp.connectionState = "Connected"
    /\ pins[<<"a">>] = [handle |-> 7, value |-> Val("Float", 2), synced |-> TRUE]
    /\ pins[<<"b">>] = [handle |-> 8, value |-> Val("Bit", 1), synced |-> TRUE]

\* C6: with successful connects and a server that answers every PING, confirms
\* every BIND and publishes a full update after each subscribe, a started
\* component is eventually Connected with every pin of the full update holding
\* its handle and value.
C6_EventuallyConnected == (log.op = "start") ~> FullySynced

C6_Witness ==
    /\ log.op = "subMessage"
    /\ log.type = "HALRCOMP_FULL_UPDATE"
    /\ inflight.sub = <<>>
    /\ FullySynced

BindRejected == log.op = "rpcMessage" /\ log.type = "HALRCOMP_BIND_REJECT"

SetRejected == log.op = "rpcMessage" /\ log.type = "HALRCOMP_SET_REJECT"

\* C7: after a BIND_REJECT the RPC client is not ready and Down, the component is
\* in Error with BindError, errorString is the notes each followed by a newline,
\* and both registry indices are empty.
C7_BindReject ==
    BindRejected =>
        /\ ~rpc.ready
        /\ rpc.socketState = "Down"
        /\ comp.connectionState = "Error"
        /\ comp.error = "BindError"
        /\ comp.errorString = JoinNotes(log.note)
        /\ RegistryEmpty

C7_Witness ==
    /\ BindRejected
    /\ log.note = <<"n1", "n2">>
    /\ comp.errorString = <<"n1", NewLine, "n2", NewLine>>
    /\ \E i \in 1..Len(log.stateEvents) : log.stateEvents[i].from = "Connected"

\* C8: after a SET_REJECT the component is in Error with PinChangeError and
\* errorString is the concatenation of the notes (with or without the newlines).
C8_SetReject ==
    SetRejected =>
        /\ comp.connectionState = "Error"
        /\ comp.error = "PinChangeError"
        /\ comp.errorString \in {JoinNotes(log.note), ConcatNotes(log.note)}

\* C9 as claimed: a SET_REJECT leaves the RPC client ready and Up, the subscriber
\* as it was and the registry intact.
C9_SetRejectKeepsSession ==
    [][(log'.op = "rpcMessage" /\ log'.type = "HALRCOMP_SET_REJECT")
        => /\ rpc'.ready
           /\ rpc'.socketState = "Up"
           /\ sub' = sub
           /\ comp'.pinsByName = comp.pinsByName
           /\ comp'.pinsByHandle = comp.pinsByHandle]_vars

\* C9 amended: a SET_REJECT tears the session down as every other error does:
\* both supervisors are left not ready and Down without a socket, and both
\* registry indices are empty.
C9_SetRejectTearsDown ==
    SetRejected =>
        /\ ~rpc.ready /\ rpc.socketState = "Down" /\ rpc.socket = "null"
        /\ ~sub.ready /\ sub.socketState = "Down" /\ sub.socket = "null"
        /\ RegistryEmpty

C9_Witness ==
    /\ SetRejected
    /\ comp.error = "PinChangeError"
    /\ Len(log.stateEvents) > 0
    /\ log.stateEvents[1].from = "Connected"
    /\ RegistryEmpty

\* C10: whenever connectionError is not NoError both supervisors are not ready
\* and Down and both registry indices are empty.
C10_ErrorMeansTornDown ==
    comp.error # "NoError" =>
        /\ ~rpc.ready /\ rpc.socketState = "Down"
        /\ ~sub.ready /\ sub.socketState = "Down"
        /\ RegistryEmpty

C10_Witness ==
    /\ comp.error = "CommandError"
    /\ log.op = "subMessage"
    /\ \E i \in 1..Len(log.stateEvents) : log.stateEvents[i].from = "Connected"

CommandRejected == log.op = "subMessage" /\ log.type = "HALRCOMMAND_ERROR"

\* C11: after a HALRCOMMAND_ERROR was handled the component is in Error with
\* CommandError and errorString is the concatenation of the notes (with or
\* without the newlines).
C11_CommandError ==
    [][(sub.socketState = "Up" /\ CommandRejected')
        => /\ comp'.connectionState = "Error"
           /\ comp'.error = "CommandError"
           /\ comp'.errorString \in {JoinNotes(log'.note), ConcatNotes(log'.note)}]_vars

Entered(states, state) == \E i \in 1..Len(states) : states[i] = state

\* C12: a supervisor that enters Timeout yields connectionError = Timeout, a
\* supervisor that enters Error yields connectionError = Socket.
C12_LinkErrorsSurfaced ==
    /\ (Entered(log.rpcStates, "Timeout") \/ Entered(log.subStates, "Timeout"))
          => comp.error = "TimeoutError"
    /\ (Entered(log.rpcStates, "Error") \/ Entered(log.subStates, "Error"))
          => comp.error = "SocketError"

\* C13 as claimed: after a subscriber Timeout the first message, whatever its
\* type, makes the subscriber unsubscribe (Down) and subscribe (Trying) before
\* anything else.
C13_ResubscribeOnAnyMessage ==
    [][(sub.socketState = "Timeout" /\ log'.op = "subMessage")
        => /\ Len(log'.subStates) >= 2
           /\ log'.subStates[1] = "Down"
           /\ log'.subStates[2] = "Trying"]_vars

\* C13 amended: after a subscriber Timeout the first message of any type but
\* HALRCOMP_FULL_UPDATE makes the subscriber unsubscribe (Down) and subscribe
\* (Trying), which leaves it in Trying with the configured topics subscribed; a
\* HALRCOMP_FULL_UPDATE takes it to Up at once.
C13_ResubscribeUnlessFullUpdate ==
    [][(sub.socketState = "Timeout" /\ log'.op = "subMessage")
        => IF log'.type = "HALRCOMP_FULL_UPDATE"
           THEN log'.subStates = <<"Up">> /\ sub'.socketState = "Up"
           ELSE /\ log'.subStates = <<"Down", "Trying">>
                /\ sub'.socketState = "Trying"
                /\ sub'.subscriptions = sub'.topics]_vars

C13_Witness ==
    /\ log.op = "subMessage"
    /\ log.type = "PING"
    /\ log.subStates = <<"Down", "Trying">>
    /\ Len(log.stateEvents) = 2
    /\ log.stateEvents[1].from = "Timeout"

\* C14: the subscriber enters Up only while it handles a HALRCOMP_FULL_UPDATE; in
\* Trying or Timeout a message of another type never brings it to Up.
C14_UpOnlyOnFullUpdate ==
    /\ [](Entered(log.subStates, "Up")
            => (log.op = "subMessage" /\ log.type = "HALRCOMP_FULL_UPDATE"))
    /\ [][(sub.socketState \in {"Trying", "Timeout"}
             /\ log'.op \in {"subMessage", "subShortMessage"}
             /\ log'.type # "HALRCOMP_FULL_UPDATE")
            => sub'.socketState # "Up"]_vars

C14_Witness ==
    /\ log.op = "subMessage"
    /\ log.type = "HALRCOMP_FULL_UPDATE"
    /\ log.subStates = <<"Up">>
    /\ Len(log.stateEvents) = 1
    /\ log.stateEvents[1].from = "Timeout"
    /\ log.stateEvents[1].to = "Connected"

C17_SubscriptionsFollowLinkState ==
    /\ (sub.socketState \in {"Up", "Trying"}) => (sub.subscriptions = sub.topics)
    /\ (sub.socketState = "Down") => (sub.subscriptions = {})

\* C18: the handle map is empty from start() until a BIND_CONFIRM was received
\* and a HALRCOMP_FULL_UPDATE is handled, and only the handling of a
\* HALRCOMP_FULL_UPDATE adds entries to it.
C18_HandlesOnlyFromFullUpdate ==
    /\ [](comp.pinsByHandle # {} => hist.bindConfirmed)
    /\ [][(log'.op = "start") => (comp'.pinsByHandle = {})]_vars
    /\ [][~(comp'.pinsByHandle \subseteq comp.pinsByHandle)
            => (log'.op = "subMessage" /\ log'.type = "HALRCOMP_FULL_UPDATE"
                /\ hist.bindConfirmed)]_vars

C18_Witness ==
    /\ log.op = "subMessage"
    /\ log.type = "HALRCOMP_FULL_UPDATE"
    /\ hist.bindConfirmed
    /\ comp.pinsByHandle = {<<7, <<"a">>>>, <<8, <<"b">>>>}

\* the pin records of a full update
UpdatePins(rx) == IF rx.comp = <<>> THEN <<>> ELSE rx.comp[1].pin

\* C19: a full update with a pin whose name is not registered is handled without
\* a failure, that pin leaves no entry in the registry, and the pins of the
\* update that are registered get their handles.
C19_UnknownNameSkipped ==
    [][(log'.op = "subMessage" /\ log'.type = "HALRCOMP_FULL_UPDATE"
          /\ \E i \in 1..Len(UpdatePins(log'.rx)) :
                StripPrefix(UpdatePins(log'.rx)[i].name) \notin comp.pinsByName)
        => /\ ~crashed'
           /\ comp'.pinsByName = comp.pinsByName
           /\ \A e \in comp'.pinsByHandle : e[2] \in comp'.pinsByName
           /\ \A i \in 1..Len(UpdatePins(log'.rx)) :
                LET r == UpdatePins(log'.rx)[i]
                IN  StripPrefix(r.name) \in comp.pinsByName
                       => /\ pins'[StripPrefix(r.name)].handle = r.handle
                          /\ <<r.handle, StripPrefix(r.name)>> \in comp'.pinsByHandle]_vars

\* C20: an incremental update whose handles are not in the handle map, received
\* by a subscriber that is Up, leaves the component and every pin as they were.
C20_UnknownHandleIgnored ==
    [][(sub.socketState = "Up" /\ log'.op = "subMessage"
          /\ log'.type = "HALRCOMP_INCREMENTAL_UPDATE"
          /\ \A i \in 1..Len(log'.rx.pin) :
                \A e \in comp.pinsByHandle : e[1] # log'.rx.pin[i].handle)
        => /\ comp'.connectionState = comp.connectionState
           /\ comp'.error = comp.error
           /\ comp'.errorString = comp.errorString
           /\ comp'.pinsByName = comp.pinsByName
           /\ comp'.pinsByHandle = comp.pinsByHandle
           /\ pins' = pins
           /\ log'.stateEvents = <<>>]_vars

C20_Witness ==
    /\ log.op = "subMessage"
    /\ log.type = "HALRCOMP_INCREMENTAL_UPDATE"
    /\ log.rx.pin[1].handle = 99
    /\ log.subStates = <<>>
    /\ comp.connectionState = "Connected"
    /\ comp.pinsByHandle = {<<7, <<"a">>>>, <<8, <<"b">>>>}
    /\ pins[<<"a">>].synced

-----------------------------------------------------------------------------
\* the registered pins an update addresses: by handle in an incremental
\* update, by name in a full update; with the value of the record
Addressed(rx) ==
    IF rx.type = "HALRCOMP_INCREMENTAL_UPDATE"
    THEN {x \in {<<e[2], rx.pin[i].value>> :
                    e \in comp.pinsByHandle, i \in 1..Len(rx.pin)} :
            /\ x[1] # NullPin
            /\ \E i \in 1..Len(rx.pin) :
                  /\ <<rx.pin[i].handle, x[1]>> \in comp.pinsByHandle
                  /\ rx.pin[i].value = x[2]}
    ELSE {x \in {<<StripPrefix(UpdatePins(rx)[i].name), UpdatePins(rx)[i].value>> :
                    i \in 1..Len(UpdatePins(rx))} :
            x[1] \in comp.pinsByName}

\* C21: after an incremental update has been processed, every registered pin
\* whose handle appears in a record that carries a value is synced.
C21_ValuedPinsSynced ==
    [][(sub.socketState = "Up" /\ log'.op = "subMessage"
          /\ log'.type = "HALRCOMP_INCREMENTAL_UPDATE")
        => \A i \in 1..Len(log'.rx.pin) :
              \A e \in comp.pinsByHandle :
                 (/\ e[1] = log'.rx.pin[i].handle
                  /\ e[2] # NullPin
                  /\ log'.rx.pin[i].value # NoValue)
                    => pins'[e[2]].synced]_vars

\* C21 as stated: after an incremental update has been processed, every
\* registered pin whose handle appears in the update is synced.
C21_ListedPinsSynced ==
    [][(sub.socketState = "Up" /\ log'.op = "subMessage"
          /\ log'.type = "HALRCOMP_INCREMENTAL_UPDATE")
        => \A i \in 1..Len(log'.rx.pin) :
              \A e \in comp.pinsByHandle :
                 (e[1] = log'.rx.pin[i].handle /\ e[2] # NullPin)
                    => pins'[e[2]].synced]_vars

C21_Witness ==
    /\ log.op = "subMessage"
    /\ log.type = "HALRCOMP_INCREMENTAL_UPDATE"
    /\ log.subStates = <<>>
    /\ sub.socketState = "Up"
    /\ log.rx.pin[1] = RemotePin(<<>>, 7, Val("Float", 2))
    /\ <<7, <<"a">>>> \in comp.pinsByHandle
    /\ pins[<<"a">>].synced
    /\ pins[<<"a">>].value = Val("Float", 2)
    /\ ~pins[<<"b">>].synced

\* the records of an update that address a registered pin with a value field
\* other than the one of the pin's type
Mismatched(rx) ==
    {x \in Addressed(rx) : x[2] # NoValue /\ x[2].tag # PinType(x[1])}

\* C22: a remote pin record, of a full or an incremental update, whose value
\* has another type than the local pin is not applied, and the component
\* reports the error PinChangeError.
C22_TypeMismatchRejected ==
    [][(/\ log'.op = "subMessage"
        /\ \/ log'.type = "HALRCOMP_FULL_UPDATE"
           \/ log'.type = "HALRCOMP_INCREMENTAL_UPDATE" /\ sub.socketState = "Up"
        /\ Mismatched(log'.rx) # {})
        => /\ \A x \in Mismatched(log'.rx) : pins'[x[1]].value # x[2]
           /\ comp'.error = "PinChangeError"]_vars

\* C23: a send on the RPC client that has no socket fails with a socket error:
\* the link state becomes Error, with an error text.
C23_SendWithoutSocketFails ==
    [][(log'.op = "send" /\ rpc.socket = "null")
        => /\ rpc'.socketState = "Error"
           /\ rpc'.errorString # EmptyString]_vars

\* C24: a supervisor that is not ready is Down, has no socket and no running
\* heartbeat timer, in whatever link state it was stopped.
C24_StoppedMeansDown ==
    /\ ~rpc.ready => /\ rpc.socketState = "Down"
                     /\ rpc.socket = "null"
                     /\ ~rpc.timerActive
    /\ ~sub.ready => /\ sub.socketState = "Down"
                     /\ sub.socket = "null"
                     /\ ~sub.timerActive

C24_Witness ==
    /\ log.op = "stop"
    /\ log.rpcStates = <<"Down">>
    /\ log.subStates = <<"Down">>
    /\ ~rpc.ready /\ rpc.socketState = "Down" /\ ~rpc.timerActive
    /\ ~sub.ready /\ sub.socketState = "Down" /\ ~sub.timerActive

\* C25: the Component record of the BIND built from the registry, fed back as
\* a full update with fresh distinct handles, leaves every registered pin's
\* value as it was and gives every registered pin its handle, for every
\* component name; name, type and direction of a pin never change.
C25_BindRoundTrip ==
    [][(log'.op = "echo")
        => /\ ~crashed'
           /\ comp'.pinsByName = comp.pinsByName
           /\ \A e \in comp'.pinsByHandle : e[2] \in comp.pinsByName
           /\ \A p \in comp.pinsByName :
                 /\ pins'[p].value = pins[p].value
                 /\ pins'[p].handle # NoHandle
                 /\ <<pins'[p].handle, p>> \in comp'.pinsByHandle
                 /\ \A q \in comp.pinsByName \ {p} :
                       pins'[q].handle # pins'[p].handle]_vars

\* C26: the connected property is true exactly when the connection state is
\* Connected.
C26_ConnectedIffStateConnected ==
    comp.connected <=> (comp.connectionState = "Connected")

C26_Witness ==
    /\ log.op = "subMessage"
    /\ Len(log.stateEvents) = 1
    /\ log.stateEvents[1].to = "Connected"
    /\ comp.connected
    /\ comp.connectionState = "Connected"

\* C27: on recovery from a timeout the subscriber calls the socket's
\* unsubscribe primitive for every subscribed topic and only then subscribes to
\* the configured topics.
C27_UnsubscribeThenSubscribe ==
    [][(/\ sub.socketState = "Timeout"
        /\ log'.op = "subMessage"
        /\ log'.subStates # <<>>
        /\ log'.subStates[1] = "Down")
        => LET calls == log'.socketCalls
               n == Cardinality(sub.subscriptions)
           IN  /\ Len(calls) = n + Cardinality(sub.topics)
               /\ \A i \in 1..n : calls[i].call = "unsubscribeFrom"
               /\ {calls[i].topic : i \in 1..n} = sub.subscriptions
               /\ \A i \in (n + 1)..Len(calls) : calls[i].call = "subscribeTo"
               /\ {calls[i].topic : i \in (n + 1)..Len(calls)} = sub.topics]_vars

\* C28: the RPC client hands no PING_ACKNOWLEDGE to the component and the
\* subscriber hands no PING to the component.
C28_OwnHeartbeatNotForwarded ==
    \A i \in 1..Len(log.forwarded) :
       /\ log.forwarded[i].channel = "rpc" => log.forwarded[i].type # "PING_ACKNOWLEDGE"
       /\ log.forwarded[i].channel = "sub" => log.forwarded[i].type # "PING"

\* C28 as stated: neither supervisor hands a PING or a PING_ACKNOWLEDGE to the
\* component.
C28_NoHeartbeatForwarded ==
    \A i \in 1..Len(log.forwarded) :
       log.forwarded[i].type \notin {"PING", "PING_ACKNOWLEDGE"}

C28_Witness ==
    /\ log.op = "rpcMessage"
    /\ log.type = "PING_ACKNOWLEDGE"
    /\ rpc.socketState = "Up"
    /\ rpc.pingErrorCount = 0
    /\ log.rpcStates = <<"Up">>
    /\ log.forwarded = <<>>

\* C29: a message on the RPC channel, in whatever link state it arrives, leaves
\* the ping counter at 0 and takes the link to Up, and the client has emitted
\* that state change before it hands the message to the component.
C29_MessageLatchesUp ==
    [][(log'.op = "rpcMessage")
        => /\ rpc'.pingErrorCount = 0
           /\ rpc.socketState # "Up"
                 => /\ log'.rpcStates # <<>>
                    /\ log'.rpcStates[1] = "Up"
                    /\ log'.linkEvents # <<>>
           /\ (rpc.socketState = "Up" /\ log'.rpcStates = <<>>)
                 => rpc'.socketState = "Up"
           /\ \A i \in 1..Len(log'.forwarded) :
                 log'.forwarded[i].channel = "rpc"
                    => log'.forwarded[i].emitted
                          >= (IF rpc.socketState # "Up" THEN 1 ELSE 0)]_vars

C29_Witness ==
    /\ log.op = "rpcMessage"
    /\ log.type = "OTHER"
    /\ log.rpcStates = <<"Up">>
    /\ log.stateEvents # <<>>
    /\ log.stateEvents[1].from = "Timeout"
    /\ log.forwarded = <<[channel |-> "rpc", type |-> "OTHER", emitted |-> 1]>>
    /\ rpc.socketState = "Up"
    /\ rpc.pingErrorCount = 0

\* C30: when the first full update after a subscribe carries no protocol
\* parameters, the subscriber has the heartbeat period of 3000 ms and its
\* heartbeat timer is running.
C30_DefaultPeriodKept ==
    [][(/\ sub.socketState = "Trying"
        /\ log'.op = "subMessage"
        /\ log'.type = "HALRCOMP_FULL_UPDATE"
        /\ log'.rx.pparams = 0
        /\ ~crashed')
        => /\ sub'.heartbeatPeriod = DefaultHeartbeatPeriod
           /\ sub'.timerActive]_vars

\* C31: a supervisor that is in Error or in Down has no socket and no
\* transport context.
C31_ErrorOrDownReleased ==
    /\ rpc.socketState \in {"Error", "Down"}
          => rpc.socket = "null" /\ ~rpc.context
    /\ sub.socketState \in {"Error", "Down"}
          => sub.socket = "null" /\ ~sub.context

\* the registered pins that have an entry in the handle map
HandledPins == {e[2] : e \in comp.pinsByHandle}

C33_OneHandlePerPin ==
    \A e \in comp.pinsByHandle : \A f \in comp.pinsByHandle :
       (e[2] = f[2] /\ e[2] # NullPin) => e[1] = f[1]

\* C34: the subscriber is ready, or in a link state other than Down, only
\* while the RPC client is Up.
C34_SubscriberOnlyWhileRpcUp ==
    (sub.ready \/ sub.socketState # "Down") => rpc.socketState = "Up"

\* C35: every envelope the component hands to the RPC client carries only the
\* records of that call: a SET one Pin record and no Component record, a BIND
\* one Component record and no Pin record.
C35_EnvelopeHoldsOwnRecords ==
    \A i \in 1..Len(log.out) :
       /\ log.out[i].type = "HALRCOMP_SET"
             => Len(log.out[i].pin) = 1 /\ log.out[i].comp = <<>>
       /\ log.out[i].type = "HALRCOMP_BIND"
             => Len(log.out[i].comp) = 1 /\ log.out[i].pin = <<>>

\* C36: between events the connection state is Error exactly when the
\* connection error is not NoError.
C36_ErrorStateIffError ==
    (comp.connectionState = "Error") <=> (comp.error # "NoError")

\* C37: the subscriber enters Timeout only from Up: a heartbeat expiry never
\* takes it to Timeout from Down, Trying or Error.
C37_TimeoutOnlyFromUp ==
    [][(sub'.socketState = "Timeout" /\ sub.socketState # "Timeout")
        => sub.socketState = "Up"]_vars

\* C38: after stop(), whatever the state before, both supervisors are Down,
\* both registry indices are empty, the connection state is Disconnected and
\* the connection error is NoError.
C38_StopResetsEverything ==
    [][(log'.op = "stop")
        => /\ rpc'.socketState = "Down"
           /\ sub'.socketState = "Down"
           /\ comp'.pinsByName = {}
           /\ comp'.pinsByHandle = {}
           /\ comp'.connectionState = "Disconnected"
           /\ comp'.error = "NoError"]_vars

\* C38, without the parts that stop() leaves as they are: after stop() both
\* supervisors are Down and both registry indices are empty; the connection
\* state is Disconnected unless it was Error before, and the connection error
\* is what it was before.
C38_StopTearsDown ==
    [][(log'.op = "stop")
        => /\ rpc'.socketState = "Down"
           /\ sub'.socketState = "Down"
           /\ comp'.pinsByName = {}
           /\ comp'.pinsByHandle = {}
           /\ comp'.connectionState \in {"Disconnected", "Error"}
           /\ comp'.connectionState = "Error" => comp.connectionState = "Error"
           /\ comp'.error = comp.error]_vars

C38_Witness ==
    /\ log.op = "stop"
    /\ log.rpcStates = <<"Down">>
    /\ log.subStates = <<"Down">>
    /\ log.stateEvents # <<>>
    /\ log.stateEvents[1].from = "Connected"
    /\ comp.connectionState = "Disconnected"
    /\ comp.error = "NoError"
    /\ comp.pinsByName = {}
    /\ comp.pinsByHandle = {}

\* the changes of the connection state in a step that is not a stop
Moves(l) ==
    IF l.op = "stop" THEN {}
    ELSE {<<l.stateEvents[i].from, l.stateEvents[i].to>> : i \in 1..Len(l.stateEvents)}

\* C39: during an undisturbed connect the connection state only moves forward,
\* Disconnected -> Connecting -> Connected, and never returns to Disconnected.
C39_OnlyForward ==
    [][Moves(log') \subseteq {<<"Disconnected", "Connecting">>,
                              <<"Connecting", "Connected">>}]_vars

\* C39, with the return the code makes: during an undisturbed connect the
\* connection state moves Disconnected -> Connecting -> Connected, except
\* that it returns from Connecting to Disconnected when the RPC client
\* becomes Up while the subscriber is still Down.
C39_ForwardButForRpcUp ==
    [][/\ Moves(log') \subseteq {<<"Disconnected", "Connecting">>,
                                 <<"Connecting", "Disconnected">>,
                                 <<"Connecting", "Connected">>}
       /\ <<"Connecting", "Disconnected">> \in Moves(log')
             => /\ log'.op = "rpcMessage"
                /\ rpc.socketState = "Trying"
                /\ \A i \in 1..Len(log'.linkEvents) :
                      log'.linkEvents[i].connectionState = "Disconnected"
                         => /\ log'.linkEvents[i].r = "Up"
                            /\ log'.linkEvents[i].s = "Down"]_vars

C39_Witness ==
    /\ log.op = "rpcMessage"
    /\ log.type = "PING_ACKNOWLEDGE"
    /\ Len(log.stateEvents) = 1
    /\ log.stateEvents[1].from = "Connecting"
    /\ log.stateEvents[1].to = "Disconnected"
    /\ rpc.socketState = "Up"
    /\ sub.socketState = "Down"
    /\ comp.ready
    /\ comp.connectionState = "Disconnected"

\* C40: while a session is running (the RPC client has been started and not
\* stopped) setName has no effect, so the subscriber's topic is the
\* component's name.
C40_NameFixedWhileRunning ==
    [][(rpc.ready /\ log'.op = "setName")
        => /\ comp'.name = comp.name
           /\ sub'.topics = {comp'.name}]_vars

=============================================================================
